---- MODULE Spec2Model ----
(***************************************************************************)
(* Orbit geometry of the solar-system scripts: the Kepler solver, the      *)
(* orbit-line builders and the per-frame position update.                  *)
(*                                                                         *)
(* JavaScript numbers are modelled as decimal fixed-point integers: the    *)
(* integer n stands for the real n / Unit.  Products and quotients are     *)
(* truncated toward zero (a monotone rounding, as IEEE rounding is), and   *)
(* are computed digit by digit so that no intermediate value leaves the    *)
(* 32-bit range of the model checker.                                      *)
(***************************************************************************)
EXTENDS Integers, Sequences, FiniteSets, TLC

\* ------------------------------------------------------------------------
\* Fixed-point arithmetic
\* ------------------------------------------------------------------------

\* one unit of the fixed-point grid: 1e-7
Unit == 10 * 1000 * 1000

Abs(x) == IF x < 0 THEN -x ELSE x

Sgn(x) == IF x < 0 THEN -1 ELSE IF x > 0 THEN 1 ELSE 0

Min(x, y) == IF x <= y THEN x ELSE y

Max(x, y) == IF x >= y THEN x ELSE y

\* floor(a * f / p) for 0 <= f < p, p a power of ten, without forming a * f
RECURSIVE MulAcc(_, _, _)
MulAcc(a, f, p) ==
  IF p = 1 THEN 0
  ELSE LET q == p \div 10
       IN (a * (f \div q) + MulAcc(a, f % q, q)) \div 10

\* x * y of JavaScript, truncated toward zero on the grid (a function, so
\* that both operands are values when the product is formed)
MulFn[x \in Int, y \in Int] ==
  LET a == Min(Abs(x), Abs(y))
      f == Max(Abs(x), Abs(y))
  IN Sgn(x) * Sgn(y) * (a * (f \div Unit) + MulAcc(a, f % Unit, Unit))

Mul(x, y) == MulFn[x, y]

\* the digits of r / d after the point (r < d), p the place still to fill
RECURSIVE DivAcc(_, _, _)
DivAcc(r, d, p) ==
  IF p = 1 THEN 0
  ELSE LET q == p \div 10
           n == r * 10
       IN (n \div d) * q + DivAcc(n % d, d, q)

\* x / y of JavaScript for y # 0, truncated toward zero on the grid
DivFn[x \in Int, y \in Int] ==
  LET n == Abs(x)
      d == Abs(y)
  IN Sgn(x) * Sgn(y) * ((n \div d) * Unit + DivAcc(n % d, d, Unit))

Div(x, y) == DivFn[x, y]

\* Math.sqrt for x >= 0: Newton's iteration from above, stopped when it no
\* longer decreases
RECURSIVE SqrtFrom(_, _)
SqrtFrom(x, s) ==
  LET t == (s + Div(x, s)) \div 2
  IN IF t >= s THEN s ELSE SqrtFrom(x, t)

\* the start is above the root and, for the division, below 2^31 / 10
Sqrt(x) ==
  IF x <= 0 THEN 0 ELSE SqrtFrom(x, Min((x + Unit + 1) \div 2, 20 * Unit))

\* pi / 4, pi / 2, pi and 2 pi on the grid
QuarterPi == 7853981

HalfPi == 2 * QuarterPi + 1

Pi == 2 * HalfPi

TwoPi == 2 * Pi

\* the alternating series 1 - u/(k(k+1)) * (1 - u/((k+2)(k+3)) * ( ... )),
\* u = x^2, in Horner form; k = 2 gives sin(x)/x and k = 1 gives cos(x)
RECURSIVE Series(_, _, _)
Series(u, k, last) ==
  IF k > last THEN Unit
  ELSE Unit - Mul(u, Series(u, k + 2, last)) \div (k * (k + 1))

\* sin and cos on [0, pi/4]
SinT(x) == Mul(x, Series(Mul(x, x), 2, 12))

CosT(x) == Series(Mul(x, x), 1, 13)

\* sin on [0, pi/2]: the octant decides which series is used, so that no
\* value exceeds 1
SinQ(r) == IF r <= QuarterPi THEN SinT(r) ELSE CosT(HalfPi - r)

CosQ(r) == IF r <= QuarterPi THEN CosT(r) ELSE SinT(HalfPi - r)

\* x reduced into [0, 2 pi)
Mod2Pi(x) == x % TwoPi

\* Math.sin
Sin(x) ==
  LET y == Mod2Pi(Abs(x))
      q == y \div HalfPi
      r == y % HalfPi
      s == CASE q = 0 -> SinQ(r)
             [] q = 1 -> CosQ(r)
             [] q = 2 -> -SinQ(r)
             [] OTHER -> -CosQ(r)
  IN Sgn(x) * s

\* Math.cos
Cos(x) ==
  LET y == Mod2Pi(Abs(x))
      q == y \div HalfPi
      r == y % HalfPi
  IN CASE q = 0 -> CosQ(r)
       [] q = 1 -> -SinQ(r)
       [] q = 2 -> -CosQ(r)
       [] OTHER -> SinQ(r)

\* t - t^3/3 + t^5/5 - ... over t, in Horner form: 1/k - u * ( ... ), u = t^2
RECURSIVE AtanSeries(_, _, _)
AtanSeries(u, k, last) ==
  IF k > last THEN 0
  ELSE Unit \div k - Mul(u, AtanSeries(u, k + 2, last))

\* tan(x / 2) from t = tan(x): t / (1 + sqrt(1 + t^2))
AtanHalve(t) == Div(t, Unit + Sqrt(Unit + Mul(t, t)))

\* the arc tangent from h = tan(x / 2): twice the series at h
AtanOfHalf(h) == 2 * Mul(h, AtanSeries(Mul(h, h), 1, 27))

\* the arc tangent of t in [0, 1]: the angle is halved, then the series
AtanUnit(t) == AtanOfHalf(AtanHalve(t))

\* the angle of (ax, ay) in the first quadrant, in [0, pi/2]
AtanFirst(ay, ax) ==
  IF ay <= ax THEN AtanUnit(Div(ay, ax)) ELSE HalfPi - AtanUnit(Div(ax, ay))

\* the first-quadrant angle a0 carried to the quadrant of (x, y)
AtanQuadrant(y, x, a0) ==
  IF y < 0 THEN -(IF x < 0 THEN Pi - a0 ELSE a0)
  ELSE IF x < 0 THEN Pi - a0 ELSE a0

\* Math.atan2(y, x), in (-pi, pi]
Atan2(y, x) ==
  IF x = 0 /\ y = 0 THEN 0
  ELSE AtanQuadrant(y, x, AtanFirst(Abs(y), Abs(x)))

\* 1 + u/3 + u^2/5 + ... from the term of the odd number k on, in Horner form
RECURSIVE AtanhSeries(_, _)
AtanhSeries(u, k) ==
  IF k > 61 THEN 0 ELSE Unit \div k + Mul(u, AtanhSeries(u, k + 2))

\* log(x) = 2 atanh(z) for z = (x - 1) / (x + 1)
LnOfRatio(z) == 2 * Mul(z, AtanhSeries(Mul(z, z), 1))

\* Math.log(x) for x >= 1
Ln(x) == LnOfRatio(Div(x - Unit, x + Unit))

\* ------------------------------------------------------------------------
\* State
\* ------------------------------------------------------------------------

VARIABLES
  kSolver, \* which code solves Kepler's equation: "newton" (solveKepler),
           \* "fixedpoint" (the loop of createOrbitLineFromElements) or
           \* "approx" (const E = M of the hand-written-table script)
  kM,      \* the mean anomaly M
  ke,      \* the eccentricity e
  kE,      \* the current estimate E
  kIter,   \* the loop counter (i, iter)
  kpc,     \* "loop" while in the loop, "done" once E is final
  script,        \* the script that runs: "part_005", "part_002", "part_000",
                 \* "part_006" or "app" (the second script of app.js)
  elements,      \* the orbital elements of each planet (orbitElements,
                 \* orbitalElementsData)
  segments,      \* the segment count the orbit lines are built with
  stepRound,     \* part_000: how the quotient 2 pi / segments was rounded
  pc,            \* "load" before the orbit lines exist, "run" after,
                 \* "crashed" once an exception has stopped the script
  orbitLines,    \* per planet, the samples its orbit line was built from;
                 \* field pos of a sample is the point of the geometry
  meshes,        \* per planet, the sample of its latest position; field pos
                 \* is p.mesh.position
  moonPosition,  \* moonMesh.position
  julianDate,    \* part_005: days since J2000
  lastTimestamp, \* part_005: the timestamp of the previous frame, in ms
  time,          \* part_000: the frame counter time
  frames,        \* the number of frames rendered
  built,         \* per planet, how many times its orbit line was built
  assigned,      \* per planet, how many times the latest frame set its
                 \* mesh position
  raised,        \* the exception that stopped the script, "none" if none
  pending,       \* the number of calls of animate that are due: the call
                 \* that ends the module body, and the callbacks requested
                 \* with requestAnimationFrame
  solarSystemPos,    \* solarSystem.position
  cameraPos,         \* camera.position
  controlsTarget,    \* controls.target
  userIsInteracting, \* controls.userIsInteracting
  lastControlEvent,  \* the latest of the events 'start' and 'end' of the
                     \* controls, "none" before the first
  activeTabs,        \* the .tab buttons that carry the class 'active'
  activeSections,    \* the sections that carry the class 'active'
  lastClicked,       \* the .tab button clicked last, "none" before the first
  cometVelocity,     \* app.js: comet.velocity
  cometPosition,     \* app.js: cometMesh.position
  tailPositions,     \* app.js: the Float32Array tailPositions, three
                     \* entries to a slot
  callState          \* clampCameraDistance called on its own: "call" before
                     \* the call, "done" after it

keplerVars == <<kSolver, kM, ke, kE, kIter, kpc>>

orbitVars ==
  <<script, elements, segments, stepRound, pc, orbitLines, meshes,
    moonPosition, julianDate, lastTimestamp, time, frames, built, assigned,
    raised, pending>>

viewVars ==
  <<solarSystemPos, cameraPos, controlsTarget, userIsInteracting,
    lastControlEvent, activeTabs, activeSections, lastClicked, callState>>

cometVars == <<cometVelocity, cometPosition, tailPositions>>

vars == <<keplerVars, orbitVars, viewVars, cometVars>>

\* ------------------------------------------------------------------------
\* Solving Kepler's equation M = E - e sin E
\* ------------------------------------------------------------------------

\* the default tolerance=1e-6, in grid units
Tolerance == 10

\* the default maxIter
MaxIter == 20

\* the pass count of the fixed-point loop
FixedPointIters == 5

\* E - e sin E - M with cos written for sin
KeplerDeltaCos(E, M, e) == E - Mul(e, Cos(E)) - M

\* delta = E - e * Math.sin(E) - M
KeplerDelta(E, M, e) == E - Mul(e, Sin(E)) - M

\* E - delta / (1 - e * Math.cos(E))
KeplerNewton(E, M, e) == E - Div(KeplerDelta(E, M, e), Unit - Mul(e, Cos(E)))

\* a loop that only the tolerance ends
KeplerLoopGuardUncapped(i) == TRUE

\* the loop condition i < maxIter
KeplerLoopGuard(i) == i < MaxIter

\* the start E = pi
KeplerStartPi(M, e) == Pi

\* let E = M
KeplerStart(M, e) == M

\* the for loop from counter i on, and the return value (a function, so
\* that each estimate is a value before the next pass starts)
solveKeplerFrom[E \in Int, M \in Int, e \in Int, i \in Nat] ==
  IF ~KeplerLoopGuard(i) THEN E
  ELSE IF Abs(KeplerDelta(E, M, e)) < Tolerance THEN E
  ELSE solveKeplerFrom[KeplerNewton(E, M, e), M, e, i + 1]

solveKepler(M, e) == solveKeplerFrom[KeplerStart(M, e), M, e, 0]

\* E = M + e * Math.sin(E)
FixedPointStep(E, M, e) == M + Mul(e, Sin(E))

\* the loop for (iter = 0; iter < 5; iter++) from counter iter on
RECURSIVE FixedPointFrom(_, _, _, _)
FixedPointFrom(E, M, e, iter) ==
  IF iter >= FixedPointIters THEN E
  ELSE FixedPointFrom(FixedPointStep(E, M, e), M, e, iter + 1)

\* let E = M; for (...) E = M + e * Math.sin(E)
FixedPointE(M, e) == FixedPointFrom(KeplerStart(M, e), M, e, 0)

\* const E = M; // approximation
ApproxE(M, e) == M

\* ------------------------------------------------------------------------
\* Orbit geometry
\* ------------------------------------------------------------------------

Planets == <<"Mercury", "Earth", "Mars">>

PlanetNames == {Planets[k] : k \in 1 .. Len(Planets)}

\* BASE_SCALE of the three scripts
BaseScale005 == 5000

BaseScale002 == 3333

BaseScale000 == 4444

BaseScale(s) ==
  CASE s = "part_005" -> BaseScale005
    [] s = "part_002" -> BaseScale002
    [] OTHER -> BaseScale000

\* scene coordinates are kept on a grid of 1e-3 scene units
SceneUnit == 1000

\* x * BASE_SCALE: x in AU on the 1e-7 grid, the product on the scene grid
SceneScale(x, bs) ==
  LET g == Unit \div SceneUnit
  IN Sgn(x) * (bs * (Abs(x) \div g) + (bs * (Abs(x) % g)) \div g)

\* r = a * (1 - cos E), the eccentricity left out
RadiusNoEcc(a, e, cosE) == Mul(a, Unit - cosE)

\* r = a * (1 - e * cosE)
Radius(a, e, cosE) == Mul(a, Unit - Mul(e, cosE))

\* the closed form with the inclination left out of x and y
EclipticFromFlat(r, cosO, sinO, coswv, sinwv, cosi, sini) ==
  << Mul(r, Mul(cosO, coswv) - Mul(sinO, sinwv)),
     Mul(r, Mul(sinO, coswv) + Mul(cosO, sinwv)),
     Mul(r, Mul(sinwv, sini)) >>

\* part_005: x, y, z from r and the six cosines and sines
EclipticFrom(r, cosO, sinO, coswv, sinwv, cosi, sini) ==
  << Mul(r, Mul(cosO, coswv) - Mul(Mul(sinO, sinwv), cosi)),
     Mul(r, Mul(sinO, coswv) + Mul(Mul(cosO, sinwv), cosi)),
     Mul(r, Mul(sinwv, sini)) >>

\* the closed form with the node and the periapsis argument exchanged
Ecliptic005Swapped(r, nu, el) ==
  EclipticFrom(r, Cos(el.w), Sin(el.w), Cos(nu + el.o), Sin(nu + el.o),
               Cos(el.i), Sin(el.i))

\* part_005: x, y, z from r, the true anomaly and the angles i, o, w
Ecliptic005(r, nu, el) ==
  EclipticFrom(r, Cos(el.o), Sin(el.o), Cos(nu + el.w), Sin(nu + el.w),
               Cos(el.i), Sin(el.i))

\* the element records of a planet: a, e and the angles i, o, w, ma
ElementRecords == [a : Int, e : Int, i : Int, o : Int, w : Int, ma : Int]

\* the rotation blocks and the vectors
Matrices == [1 .. 3 -> [1 .. 3 -> Int]]
Vectors == [1 .. 3 -> Int]

\* part_005: the sample of a point c = (x, y, z); the Vector3 is
\* (x, z, y) * BASE_SCALE
Point005[M \in Int, E \in Int, nu \in Int, r \in Int, c \in Vectors] ==
  [anom |-> M, E |-> E, nu |-> nu, r |-> r,
   plane |-> <<Mul(r, Cos(nu)), Mul(r, Sin(nu)), 0>>,
   P |-> c,
   pos |-> << SceneScale(c[1], BaseScale005),
              SceneScale(c[3], BaseScale005),
              SceneScale(c[2], BaseScale005) >>]

\* part_005: from r and the true anomaly to the point
Position005[el \in ElementRecords, M \in Int, E \in Int, nu \in Int, r \in Int] ==
  Point005[M, E, nu, r, Ecliptic005(r, nu, el)]

\* part_005: from cos E and sin E to r and the true anomaly
Anomaly005[el \in ElementRecords, M \in Int, E \in Int, cosE \in Int, sinE \in Int] ==
  Position005[el, M, E,
              Atan2(Mul(Sqrt(Unit - Mul(el.e, el.e)), sinE), cosE - el.e),
              Radius(el.a, el.e, cosE)]

\* part_005: from E to the point, as the builder and animate both do
Sample005(el, M, E) == Anomaly005[el, M, E, Cos(E), Sin(E)]

\* the samples counted from one: ((j + 1) / segments) * 2 * Math.PI
SampleAngleFromOne(j, n) ==
  Mul(Mul(Div((j + 1) * Unit, n * Unit), 2 * Unit), Pi)

\* (j / segments) * 2 * Math.PI
SampleAngle(j, n) == Mul(Mul(Div(j * Unit, n * Unit), 2 * Unit), Pi)

\* the index of the last pass of the builders' loop: j <= segments
LastIndex(n) == n

\* part_005: createOrbitLineFromElements
createOrbitLineFromElements005(el, n) ==
  [k \in 1 .. LastIndex(n) + 1 |->
     LET M == SampleAngle(k - 1, n)
     IN Sample005(el, M, FixedPointE(M, el.e))]

\* THREE.Matrix4 restricted to its rotation block, as a tuple of rows
Identity3 == << <<Unit, 0, 0>>, <<0, Unit, 0>>, <<0, 0, Unit>> >>

\* Matrix4.makeRotationZ
makeRotationZ(t) ==
  << <<Cos(t), -Sin(t), 0>>, <<Sin(t), Cos(t), 0>>, <<0, 0, Unit>> >>

\* Matrix4.makeRotationX
makeRotationX(t) ==
  << <<Unit, 0, 0>>, <<0, Cos(t), -Sin(t)>>, <<0, Sin(t), Cos(t)>> >>

\* Matrix4.multiply: this = this x m
MatMulFn[A \in Matrices, B \in Matrices] ==
  [r \in 1 .. 3 |->
     [c \in 1 .. 3 |->
        Mul(A[r][1], B[1][c]) + Mul(A[r][2], B[2][c]) + Mul(A[r][3], B[3][c])]]

MatMul(A, B) == MatMulFn[A, B]

\* Vector3.applyMatrix4 for a rotation
ApplyMatrixFn[A \in Matrices, v \in Vectors] ==
  [r \in 1 .. 3 |-> Mul(A[r][1], v[1]) + Mul(A[r][2], v[2]) + Mul(A[r][3], v[3])]

ApplyMatrix(A, v) == ApplyMatrixFn[A, v]

\* part_002: matrix.multiply(rotO); matrix.multiply(rotI); matrix.multiply(rotW)
OrbitMatrix002(el) ==
  MatMul(MatMul(MatMul(Identity3, makeRotationZ(el.o)), makeRotationX(el.i)),
         makeRotationZ(el.w))

\* part_002: geometry.applyMatrix4(matrix); geometry.scale(BASE_SCALE, ...)
Point002[theta \in Int, plane \in Vectors, c \in Vectors] ==
  [anom |-> theta,
   plane |-> plane,
   P |-> <<c[1], c[2], c[3]>>,
   pos |-> << SceneScale(c[1], BaseScale002),
              SceneScale(c[2], BaseScale002),
              SceneScale(c[3], BaseScale002) >>]

\* part_002: one point of the ellipse, rotated and scaled
Sample002(el, theta) ==
  LET b == Mul(el.a, Sqrt(Unit - Mul(el.e, el.e)))
      focusOffset == Mul(el.a, el.e)
      x == Mul(el.a, Cos(theta)) - focusOffset
      y == Mul(b, Sin(theta))
  IN Point002[theta, <<x, y, 0>>, ApplyMatrix(OrbitMatrix002(el), <<x, y, 0>>)]

\* part_002: createOrbitLineFromElements
createOrbitLineFromElements002(el, n) ==
  [k \in 1 .. LastIndex(n) + 1 |-> Sample002(el, SampleAngle(k - 1, n))]

\* part_000: the three rotations of (x, y, 0), by w, then i, then o
Rotate000(x, y, el) ==
  LET cosO == Cos(el.o)
      sinO == Sin(el.o)
      cosI == Cos(el.i)
      sinI == Sin(el.i)
      cosW == Cos(el.w)
      sinW == Sin(el.w)
      x1 == Mul(x, cosW) - Mul(y, sinW)
      y1 == Mul(x, sinW) + Mul(y, cosW)
      z1 == 0
      x2 == x1
      y2 == Mul(y1, cosI) - Mul(z1, sinI)
      z2 == Mul(y1, sinI) + Mul(z1, cosI)
      x3 == Mul(x2, cosO) - Mul(y2, sinO)
      y3 == Mul(x2, sinO) + Mul(y2, cosO)
      z3 == z2
  IN <<x3, y3, z3>>

\* part_000: new THREE.Vector3(x3, z3, y3).multiplyScalar(BASE_SCALE)
Point000[t \in Int, plane \in Vectors, c \in Vectors] ==
  [anom |-> t,
   plane |-> plane,
   P |-> c,
   pos |-> << SceneScale(c[1], BaseScale000),
              SceneScale(c[3], BaseScale000),
              SceneScale(c[2], BaseScale000) >>]

\* part_000: a point from its orbital-plane coordinates
Sample000(el, t, x, y) == Point000[t, <<x, y, 0>>, Rotate000(x, y, el)]

\* part_000: the loop for (t = 0; t <= 2 pi; t += step) from t on
RECURSIVE OrbitLoop000(_, _, _, _)
OrbitLoop000(el, step, t, points) ==
  IF t > TwoPi THEN points
  ELSE LET b == Mul(el.a, Sqrt(Unit - Mul(el.e, el.e)))
           x == Mul(el.a, Cos(t)) - Mul(el.a, el.e)
           y == Mul(b, Sin(t))
       IN OrbitLoop000(el, step, t + step, Append(points, Sample000(el, t, x, y)))

\* part_000: (2 * Math.PI) / segments; a quotient that is not on the grid is
\* rounded down (rnd = 0) or up (rnd = 1)
Step000(n, rnd) ==
  LET q == Div(TwoPi, n * Unit)
  IN IF q * n = TwoPi THEN q ELSE q + rnd

\* part_000: createOrbitLine
createOrbitLine000(el, n, rnd) == OrbitLoop000(el, Step000(n, rnd), 0, <<>>)

\* app.js: a point of the ellipse; a, and with it the point, is in scene
\* units on the scene grid, and the Vector3 is (p.x, 0, p.y)
PointApp[theta \in Int, x \in Int, y \in Int] ==
  [anom |-> theta,
   plane |-> <<x, y, 0>>,
   P |-> <<x, y, 0>>,
   pos |-> <<x, 0, y>>]

\* app.js: EllipseCurve.getPoint at the angle theta: aX + xRadius cos,
\* aY + yRadius sin
SampleApp(a, b, focusOffset, theta) ==
  PointApp[theta, Mul(a, Cos(theta)) - focusOffset, Mul(b, Sin(theta))]

\* app.js: createOrbitLine; curve.getPoints(segments) gives the points of
\* t = d / segments for d = 0 .. segments, at the angle t * 2 pi
createOrbitLineApp(a, e, n) ==
  [k \in 1 .. n + 1 |->
     SampleApp(a, Mul(a, Sqrt(Unit - Mul(e, e))), Mul(a, e),
               Mul(Div((k - 1) * Unit, n * Unit), TwoPi))]

\* the sample of a mesh that has not been positioned
NoSample == [pos |-> <<0, 0, 0>>]

\* ------------------------------------------------------------------------
\* The scripts: orbit creation and the animation loop
\* ------------------------------------------------------------------------

\* the largest segment count tried
MaxSegments == 3

\* the number of frames followed
MaxFrames == 3

\* TIME_SPEED_FACTOR of part_005 and of part_000
TimeSpeedFactor005 == 10

TimeSpeedFactor000 == 5

\* the Gaussian gravitational constant 0.01720209895
GaussK == 172021

\* the elements of the hand-written table, angles in radians, with a mean
\* anomaly at the epoch
TableElements ==
  [p \in PlanetNames |->
     CASE p = "Mercury" ->
            [a |-> 3871000, e |-> 3500000, i |-> 1222603, o |-> 8435350,
             w |-> 5083096, ma |-> 30507657]
       [] p = "Earth" ->
            [a |-> Unit, e |-> 300000, i |-> 0, o |-> 0,
             w |-> 19932881, ma |-> 62400601]
       [] OTHER ->
            [a |-> 15237000, e |-> 1500000, i |-> 322885, o |-> 8649502,
             w |-> 50004032, ma |-> 3381000]]

\* elements as VSOP87 gives them at J2000
VsopElements ==
  [p \in PlanetNames |->
     CASE p = "Mercury" ->
            [a |-> 3870983, e |-> 2056000, i |-> 1222600, o |-> 8435300,
             w |-> 5083100, ma |-> 30507657]
       [] p = "Earth" ->
            [a |-> 10000010, e |-> 167000, i |-> 0, o |-> 0,
             w |-> 17966000, ma |-> 62400601]
       [] OTHER ->
            [a |-> 15236793, e |-> 934000, i |-> 322800, o |-> 8649500,
             w |-> 50003700, ma |-> 3381000]]

\* a tilted circle, the unit circle in the reference plane, and an elongated
\* tilted ellipse
ShapeElements ==
  [p \in PlanetNames |->
     CASE p = "Mercury" ->
            [a |-> 5000000, e |-> 0, i |-> 5000000, o |-> 10000000,
             w |-> 20000000, ma |-> 10000000]
       [] p = "Earth" ->
            [a |-> Unit, e |-> 0, i |-> 0, o |-> 0, w |-> 0, ma |-> 0]
       [] OTHER ->
            [a |-> 20000000, e |-> 9000000, i |-> 3000000, o |-> 40000000,
             w |-> 10000000, ma |-> 10000000]]

\* the worked examples: a = 1, e = 0.5 at the apoapsis (flat and tilted) and
\* the unit circle in the reference plane
ExampleElements ==
  [p \in PlanetNames |->
     CASE p = "Mercury" ->
            [a |-> Unit, e |-> 5000000, i |-> 0, o |-> 0, w |-> 0, ma |-> Pi]
       [] p = "Earth" ->
            [a |-> Unit, e |-> 0, i |-> 0, o |-> 0, w |-> 0, ma |-> 0]
       [] OTHER ->
            [a |-> Unit, e |-> 5000000, i |-> 3000000, o |-> 40000000,
             w |-> 10000000, ma |-> Pi]]

Configurations ==
  {TableElements, VsopElements, ShapeElements, ExampleElements}

Scripts ==
  {"part_005", "part_002", "part_000", "part_006", "app", "part_005_helix",
   "part_004", "part_001"}

\* the scripts whose orbits are given by a set of elements (a, e, i, o, w)
ElementScripts == {"part_005", "part_002", "part_000"}

\* the date of the run, in days since J2000: midnight before the epoch and
\* midnight a hundred days later
StartDates == {-5000000, 995000000}

\* the time between two frames, in ms
FrameDeltas == {50, 1000}

\* what the Moon ephemeris gives: (xMoon, yMoon, zMoon) on the scene grid
MoonOffsets == {<<12850, 0, 0>>, <<-9000, 9000, 1100>>}

\* Math's % : the sign of the dividend
JsMod(x, m) == Sgn(x) * (Abs(x) % m)

\* part_005 animate: n = Math.sqrt(mu / (a * a * a)), mu = k * k
MeanMotion(a) == Sqrt(Div(Mul(GaussK, GaussK), Mul(Mul(a, a), a)))

\* the remainder left as % gives it, negative for a negative dividend
WrapAngleNone(M) == M

\* part_005 animate: if (M < 0) M += 2 * Math.PI
WrapAngle(M) == IF M < 0 THEN M + TwoPi ELSE M

\* the mean anomaly with the anomaly at the epoch left out
MeanAnomaly005NoEpoch(el, jd) ==
  WrapAngle(JsMod(Mul(MeanMotion(el.a), jd), TwoPi))

\* part_005 animate: the mean anomaly at the date jd, in [0, 2 pi)
MeanAnomaly005(el, jd) ==
  WrapAngle(JsMod(el.ma + Mul(MeanMotion(el.a), jd), TwoPi))

\* part_005 animate: from the mean anomaly to the sample
Solved005(el, M) == Sample005(el, M, solveKepler(M, el.e))

\* part_005 animate: a planet's sample at the date jd
Frame005(el, jd) == Solved005(el, MeanAnomaly005(el, jd))

\* part_005 animate: moonMesh.position.set(earth.x + xMoon, earth.y + zMoon,
\* earth.z + yMoon)
MoonAt(earth, moon) ==
  <<earth[1] + moon[1], earth[2] + moon[3], earth[3] + moon[2]>>

\* part_000 animate: a planet's sample at the counter value t
Frame000(el, t) ==
  LET M == JsMod((t * Unit) \div 1000 + el.a, TwoPi)
      E == ApproxE(M, el.e)
      x == Mul(el.a, Cos(E) - el.e)
      y == Mul(Mul(el.a, Sqrt(Unit - Mul(el.e, el.e))), Sin(E))
  IN Sample000(el, M, x, y)

\* app.js: BASE_SCALE and OUTER_PLANETS_COMPRESSION = 0.3
BaseScaleApp == 2222

OuterPlanetsCompression == 3000000

\* app.js: the field radius of the planet list
RadiusApp(p) ==
  CASE p = "Mercury" -> 1
    [] p = "Earth" -> 3
    [] OTHER -> 4

\* app.js: ECCENTRICITIES
EccentricityApp(p) ==
  CASE p = "Mercury" -> 2056000
    [] p = "Earth" -> 167000
    [] OTHER -> 934000

\* app.js: the compression of the planets beyond Mars
CompressOuter(radius, orbitRadius) ==
  IF radius > 4 THEN Mul(orbitRadius, OuterPlanetsCompression) ELSE orbitRadius

\* app.js: orbitRadius = Math.log(p.radius) * BASE_SCALE, compressed for the
\* outer planets; on the scene grid
OrbitRadiusApp(radius) ==
  CompressOuter(radius, SceneScale(Ln(radius * Unit), BaseScaleApp))

\* app.js: what a planet holds before the orbits are created: its
\* eccentricity, and no orbitRadius yet
UnsetElementsApp ==
  [p \in PlanetNames |->
     [a |-> 0, e |-> EccentricityApp(p), i |-> 0, o |-> 0, w |-> 0, ma |-> 0]]

\* app.js: p.orbitRadius = orbitRadius
ElementsApp ==
  [p \in PlanetNames |->
     [UnsetElementsApp[p] EXCEPT !.a = OrbitRadiusApp(RadiusApp(p))]]

\* part_006: the planet list, which ends with the Moon
Planets006 == Planets \o <<"Moon">>

\* part_006: the keys of planetTextures
PlanetTextures006 == PlanetNames

\* part_006: the names the module declares or imports for the Moon
Declared006 == {"moonData", "moonTextures"}

\* reading a property of table[name]: a TypeError if the table has no such key
ReadEntry(name, keys) == IF name \in keys THEN "none" ELSE "TypeError"

\* reading the identifier name: a ReferenceError if it is not declared
ReadIdentifier(name, declared) ==
  IF name \in declared THEN "none" ELSE "ReferenceError"

\* the first exception of a sequence of steps
RECURSIVE FirstRaised(_)
FirstRaised(steps) ==
  IF steps = <<>> THEN "none"
  ELSE IF Head(steps) # "none" THEN Head(steps)
  ELSE FirstRaised(Tail(steps))

\* part_006: planets.forEach(p => { ... planetTextures[p.name].color ... })
MeshSetup006 ==
  FirstRaised([k \in 1 .. Len(Planets006) |->
                 ReadEntry(Planets006[k], PlanetTextures006)])

\* part_006: new THREE.MeshStandardMaterial({ map: moonTexture, ... })
MoonSetup006 == ReadIdentifier("moonTexture", Declared006)

\* part_006 animate: const moonData = moonposition.position(jd), before the
\* frame is rendered
Tick006 == ReadIdentifier("moonposition", Declared006)

\* how many entries of the planet list carry the name p: forEach visits each
\* entry once
Occurrences(p) == Cardinality({k \in DOMAIN Planets : Planets[k] = p})

\* ------------------------------------------------------------------------
\* The camera: auto-follow, the controls and clampCameraDistance
\* ------------------------------------------------------------------------

\* the scripts that move the solarSystem group along a helix and let the
\* camera follow it: the first script of part_005, and part_004
ViewScripts == {"part_005_helix", "part_004"}

\* the scripts that define clampCameraDistance
ClampScripts == ViewScripts \cup {"part_006", "part_003"}

\* the scripts that keep controls.userIsInteracting
ControlScripts == ViewScripts \cup {"app"}

\* camera coordinates: a THREE.Vector3 in thousands of scene units, as
\* decimal fixed point; one scene unit is ViewUnit steps
ViewUnit == Unit \div 1000

\* Vector3.add, Vector3.sub
add(u, v) == <<u[1] + v[1], u[2] + v[2], u[3] + v[3]>>

sub(u, v) == <<u[1] - v[1], u[2] - v[2], u[3] - v[3]>>

\* Vector3.multiplyScalar
multiplyScalar(v, k) == <<Mul(v[1], k), Mul(v[2], k), Mul(v[3], k)>>

\* Vector3.divideScalar
divideScalar(v, k) == <<Div(v[1], k), Div(v[2], k), Div(v[3], k)>>

\* Vector3.length
length(v) == Sqrt(Mul(v[1], v[1]) + Mul(v[2], v[2]) + Mul(v[3], v[3]))

\* Vector3.distanceTo
distanceTo(u, v) == length(sub(u, v))

\* Vector3.normalize: divideScalar(length() || 1); the zero vector has
\* length 0, is divided by 1 and stays the zero vector
NormalizeBy(v, len) == IF len = 0 THEN v ELSE divideScalar(v, len)

normalize(v) == NormalizeBy(v, length(v))

\* cameraOffset = new THREE.Vector3(300, 400, 500), in every script
cameraOffset == <<300 * ViewUnit, 400 * ViewUnit, 500 * ViewUnit>>

\* clampCameraDistance: const minDistance, const maxDistance
ClampMin(s) ==
  CASE s = "part_005_helix" -> 100 * ViewUnit
    [] s = "part_004" -> 50 * ViewUnit
    [] s = "part_006" -> 1111 * ViewUnit
    [] OTHER -> 3333 * ViewUnit

ClampMax(s) ==
  CASE s = "part_005_helix" -> 500 * ViewUnit
    [] s = "part_004" -> 1000 * ViewUnit
    [] OTHER -> 7777 * ViewUnit

\* controls.minDistance, controls.maxDistance
ControlsMin(s) ==
  CASE s = "part_005_helix" -> 100 * ViewUnit
    [] s = "part_004" -> 200 * ViewUnit
    [] s \in {"app", "part_001"} -> 3333 * ViewUnit
    [] OTHER -> 1111 * ViewUnit

ControlsMax(s) ==
  CASE s = "part_005_helix" -> 1000 * ViewUnit
    [] s = "part_004" -> 2000 * ViewUnit
    [] s \in {"app", "part_001"} -> 7777 * ViewUnit
    [] OTHER -> 5555 * ViewUnit

\* camera.position.copy(center).add(direction.multiplyScalar(bound)) when
\* the distance is outside [lo, hi]; the camera as it is otherwise
ClampTo(camera, center, distance, lo, hi) ==
  IF distance < lo
    THEN add(center, multiplyScalar(NormalizeBy(sub(camera, center), distance), lo))
  ELSE IF distance > hi
    THEN add(center, multiplyScalar(NormalizeBy(sub(camera, center), distance), hi))
  ELSE camera

\* clampCameraDistance(), the listener of the controls' 'change' event
clampCameraDistance(s, camera, sol) ==
  ClampTo(camera, sol, distanceTo(camera, sol), ClampMin(s), ClampMax(s))

\* OrbitControls.update() on the distance: the camera is kept on its ray
\* from the target, at a distance within [controls.minDistance,
\* controls.maxDistance]; a camera at the target is given the polar angle
\* EPS = 0.000001 and the azimuth 0
ControlsClamp(camera, target, distance, lo, hi) ==
  IF distance = 0
    THEN add(target, <<0, lo, Mul(lo, Unit \div (1000 * 1000))>>)
    ELSE ClampTo(camera, target, distance, lo, hi)

\* OrbitControls.update(): the 'change' event is dispatched before update
\* returns, and the scripts with a listener on it run clampCameraDistance
ControlsUpdate(s, camera, target, sol) ==
  IF s \in ClampScripts
    THEN clampCameraDistance(s,
           ControlsClamp(camera, target, distanceTo(camera, target),
                         ControlsMin(s), ControlsMax(s)), sol)
    ELSE ControlsClamp(camera, target, distanceTo(camera, target),
                       ControlsMin(s), ControlsMax(s))

\* the helix of the solarSystem group: radius, frequency and speed along z,
\* the frequency and the speed in thousandths
HelixRadius(s) == IF s = "part_005_helix" THEN 39 ELSE 15

HelixFrequency(s) == IF s = "part_005_helix" THEN 5 ELSE 10

HelixZSpeed(s) == IF s = "part_005_helix" THEN 700 ELSE 10

\* solarSystem.position.set(helixX, helixY, helixZ) at the counter value t
Helix(s, t) ==
  <<Mul(HelixRadius(s) * ViewUnit, Cos((t * HelixFrequency(s) * Unit) \div 1000)),
    Mul(HelixRadius(s) * ViewUnit, Sin((t * HelixFrequency(s) * Unit) \div 1000)),
    (t * HelixZSpeed(s) * ViewUnit) \div 1000>>

\* the auto-follow of animate: if (!controls.userIsInteracting) {
\* camera.position.copy(solarSystem.position).add(cameraOffset);
\* controls.target.copy(solarSystem.position); controls.update(); }
FollowCamera(s, interacting, camera, sol) ==
  IF interacting THEN camera
  ELSE ControlsUpdate(s, add(sol, cameraOffset), sol, sol)

FollowTarget(interacting, target, sol) == IF interacting THEN target ELSE sol

\* where a drag, a pinch or the wheel takes the camera, relative to the
\* target of the controls: close by, at cameraOffset, and far out
DragOffsets ==
  {<<0, 0, 120 * ViewUnit>>, cameraOffset,
   <<900 * ViewUnit, 0, 1200 * ViewUnit>>}

\* the document: the .tab buttons, each named by its data-tab value, and the
\* ids of the sections; the button "notes" names no element
TabButtons == {"chart", "transits", "notes"}

SectionIds == {"chart", "transits"}

\* the classes of the document as it is loaded
InitialTab == "chart"

\* document.getElementById(id).classList.add('active'): getElementById
\* gives null for an id no element has, and reading classList of null
\* raises a TypeError that ends the handler
AddActive(id, ids) == IF id \in ids THEN {id} ELSE {}

ViewIdle ==
  /\ solarSystemPos = <<0, 0, 0>>
  /\ cameraPos = <<0, 0, 0>>
  /\ controlsTarget = <<0, 0, 0>>
  /\ userIsInteracting = FALSE
  /\ lastControlEvent = "none"
  /\ activeTabs = {InitialTab}
  /\ activeSections = {InitialTab}
  /\ lastClicked = "none"
  /\ callState = "done"

\* controls.addEventListener('start', () => { controls.userIsInteracting =
\* true; }); events are delivered once the module body, which ends with the
\* first call of animate, has run
ControlsStart ==
  /\ pc = "run"
  /\ frames > 0
  /\ script \in ControlScripts
  /\ userIsInteracting' = TRUE
  /\ lastControlEvent' = "start"
  /\ UNCHANGED <<solarSystemPos, cameraPos, controlsTarget, activeTabs,
                 activeSections, lastClicked, callState>>
  /\ UNCHANGED <<keplerVars, orbitVars, cometVars>>

\* an 'end' listener that leaves the flag as it is
ControlsEndKeeping ==
  /\ pc = "run"
  /\ frames > 0
  /\ script \in ControlScripts
  /\ lastControlEvent' = "end"
  /\ UNCHANGED <<solarSystemPos, cameraPos, controlsTarget, userIsInteracting,
                 activeTabs, activeSections, lastClicked, callState>>
  /\ UNCHANGED <<keplerVars, orbitVars, cometVars>>

\* controls.addEventListener('end', () => { controls.userIsInteracting =
\* false; })
ControlsEnd ==
  /\ pc = "run"
  /\ frames > 0
  /\ script \in ControlScripts
  /\ userIsInteracting' = FALSE
  /\ lastControlEvent' = "end"
  /\ UNCHANGED <<solarSystemPos, cameraPos, controlsTarget, activeTabs,
                 activeSections, lastClicked, callState>>
  /\ UNCHANGED <<keplerVars, orbitVars, cometVars>>

\* the user moves the camera between 'start' and 'end': the controls place
\* it and dispatch 'change'
ControlsDrag ==
  /\ pc = "run"
  /\ frames > 0
  /\ script \in ViewScripts
  /\ userIsInteracting
  /\ \E off \in DragOffsets :
       cameraPos' = ControlsUpdate(script, add(controlsTarget, off),
                                   controlsTarget, solarSystemPos)
  /\ UNCHANGED <<solarSystemPos, controlsTarget, userIsInteracting,
                 lastControlEvent, activeTabs, activeSections, lastClicked,
                 callState>>
  /\ UNCHANGED <<keplerVars, orbitVars, cometVars>>

\* the click handler of a .tab button: 'active' is taken from every .tab
\* and every section, then given to the button and to the element whose id
\* is btn.dataset.tab
TabClick ==
  /\ pc = "run"
  /\ frames > 0
  /\ script \in ViewScripts
  /\ \E btn \in TabButtons :
       /\ activeTabs' = {btn}
       /\ activeSections' = AddActive(btn, SectionIds)
       /\ lastClicked' = btn
  /\ UNCHANGED <<solarSystemPos, cameraPos, controlsTarget, userIsInteracting,
                 lastControlEvent, callState>>
  /\ UNCHANGED <<keplerVars, orbitVars, cometVars>>

\* ------------------------------------------------------------------------
\* app.js: the comet and its tail
\* ------------------------------------------------------------------------

\* the number of slots of the tail buffer that are followed; comet.tailLength
\* is 1000
TailLength == 2

\* comet coordinates are Numbers on a binary grid of 2^-44 scene units;
\* comet.acceleration = 0.00001 on that grid
CometAcceleration == 175921860

\* the largest power of two that is at most m, for m >= 1
RECURSIVE Pow2Floor(_)
Pow2Floor(m) == IF m < 2 THEN 1 ELSE 2 * Pow2Floor(m \div 2)

\* the distance between neighbouring float32 values at the magnitude m: a
\* float32 has 24 significant bits
Ulp32(m) == IF Pow2Floor(m) < 2^23 THEN 1 ELSE Pow2Floor(m) \div 2^23

\* m rounded to a multiple of ulp, to the nearest one and to the even one
\* of two that are equally near
RoundTo(m, ulp) ==
  IF 2 * (m % ulp) > ulp \/ (2 * (m % ulp) = ulp /\ (m \div ulp) % 2 = 1)
    THEN (m \div ulp + 1) * ulp
    ELSE (m \div ulp) * ulp

\* what a Float32Array element holds after a Number is assigned to it
Fround(x) == Sgn(x) * RoundTo(Abs(x), Ulp32(Abs(x)))

\* tailPositions = new Float32Array(comet.tailLength * 3): all zero
EmptyTail == [i \in 1 .. TailLength |-> <<0, 0, 0>>]

\* a loop that runs upwards and so copies slot 0 into every slot
ShiftTailUpwards(tail, head) ==
  [i \in 1 .. Len(tail) |->
     <<Fround(head[1]), Fround(head[2]), Fround(head[3])>>]

\* animate: for (let i = comet.tailLength - 1; i > 0; i--) every slot takes
\* the value of the slot before it; then slot 0 takes cometMesh.position
ShiftTail(tail, head) ==
  [i \in 1 .. Len(tail) |->
     IF i = 1 THEN <<Fround(head[1]), Fround(head[2]), Fround(head[3])>>
     ELSE tail[i - 1]]

\* animate: cometMesh.position.x -= comet.velocity; cometMesh.position.z -=
\* comet.velocity
MoveComet(position, velocity) ==
  <<position[1] - velocity, position[2], position[3] - velocity>>

CometIdle ==
  /\ cometVelocity = 0
  /\ cometPosition = <<0, 0, 0>>
  /\ tailPositions = EmptyTail

\* app.js: TIME_SPEED_FACTOR
TimeSpeedFactorApp == 21

\* what the ephemeris gives for the planets: the heliocentric (x, y) of each,
\* in AU
HeliocentricApp ==
  {[p \in PlanetNames |-> <<Unit, 0>>],
   [p \in PlanetNames |-> <<-(Unit \div 2), (3 * Unit) \div 4>>]}

\* what the ephemeris gives for the Moon: ecl.lon, ecl.lat
EclipticApp == {<<0, 0>>, <<HalfPi, -(Unit \div 10)>>}

\* angle = Date.now() * 0.0001, reduced to a turn
ClockAngles == {0, QuarterPi}

\* app.js: heliocentricToVector3(helioCoords, scaleFactor), the scale and the
\* result on the scene grid
heliocentricToVector3(helio, scale) ==
  [pos |-> <<Mul(helio[1], scale), 0, Mul(helio[2], scale)>>]

\* app.js: moonMesh.position.set(earthScale + ecl.lon * 10 * 2, 0,
\* earthScale + ecl.lat * 10 * 2), on the scene grid
MoonApp(ecl) ==
  <<SceneScale(Ln(3 * Unit), BaseScaleApp) + (ecl[1] * 20) \div (Unit \div SceneUnit),
    0,
    SceneScale(Ln(3 * Unit), BaseScaleApp) + (ecl[2] * 20) \div (Unit \div SceneUnit)>>

\* app.js: the camera of a tick: it circles the Sun unless the user is
\* interacting, and controls.update() runs if the user is
CameraApp(interacting, camera, target, angle) ==
  IF interacting THEN ControlsUpdate("app", camera, target, target)
  ELSE <<Mul(1000 * ViewUnit, Sin(angle)), 500 * ViewUnit,
         Mul(1000 * ViewUnit, Cos(angle))>>

\* ------------------------------------------------------------------------
\* part_001 (first script): circular placement on logarithmic radii
\* ------------------------------------------------------------------------

\* part_001: the planet list, here with the first of the outer planets
Planets001 == Planets \o <<"Jupiter">>

Names001 == {Planets001[k] : k \in 1 .. Len(Planets001)}

\* the planet names of a script
NamesOf(s) == IF s = "part_001" THEN Names001 ELSE PlanetNames

\* part_001: the field radius of the planet list
Radius001(p) == IF p = "Jupiter" THEN 5 ELSE RadiusApp(p)

\* part_001: ECCENTRICITIES
Eccentricity001(p) == IF p = "Jupiter" THEN 489000 ELSE EccentricityApp(p)

\* part_001: what a planet holds before the orbits are created
UnsetElements001 ==
  [p \in Names001 |->
     [a |-> 0, e |-> Eccentricity001(p), i |-> 0, o |-> 0, w |-> 0, ma |-> 0]]

\* part_001: p.orbitRadius = orbitRadius
Elements001 ==
  [p \in Names001 |->
     [UnsetElements001[p] EXCEPT !.a = OrbitRadiusApp(Radius001(p))]]

\* what the ephemeris gives for the planets: pos.lon of each
Longitudes001 ==
  {[p \in Names001 |-> 0], [p \in Names001 |-> QuarterPi + Radius001(p) * HalfPi]}

\* part_001 animate: let orbitRadius = p.orbitRadius; if (p.radius > 4)
\* orbitRadius *= OUTER_PLANETS_COMPRESSION; p.mesh.position.set(orbitRadius *
\* Math.cos(pos.lon), 0, orbitRadius * Math.sin(pos.lon))
PlaceAt(orbitRadius, lon) ==
  [pos |-> <<Mul(orbitRadius, Cos(lon)), 0, Mul(orbitRadius, Sin(lon))>>]

Frame001(p, orbitRadius, lon) ==
  PlaceAt(CompressOuter(Radius001(p), orbitRadius), lon)

\* animate asking for no further frame
requestAnimationFrameDropped(due) == due

\* requestAnimationFrame(animate): one more call of animate is due
requestAnimationFrame(due) == due + 1

\* part_005 (first script), part_004: the module body up to the call
\* animate() that ends it
LoadView ==
  /\ pc = "load"
  /\ script \in ViewScripts
  /\ pc' = "run"
  /\ pending' = 1
  /\ UNCHANGED <<script, elements, segments, stepRound, orbitLines, meshes,
                 moonPosition, julianDate, lastTimestamp, time, frames, built,
                 assigned, raised>>
  /\ UNCHANGED <<keplerVars, viewVars, cometVars>>

\* part_005 (first script), part_004: animate(); the planet meshes, the
\* tail particles and the light it also places are not part of the state
AnimateView ==
  /\ pc = "run"
  /\ script \in ViewScripts
  /\ frames < MaxFrames
  /\ pending > 0
  /\ solarSystemPos' = Helix(script, time)
  /\ cameraPos' =
       FollowCamera(script, userIsInteracting, cameraPos, solarSystemPos')
  /\ controlsTarget' =
       FollowTarget(userIsInteracting, controlsTarget, solarSystemPos')
  /\ time' = time + 1
  /\ frames' = frames + 1
  /\ pending' = requestAnimationFrame(pending - 1)
  /\ UNCHANGED <<script, elements, segments, stepRound, pc, orbitLines, meshes,
                 moonPosition, julianDate, lastTimestamp, built, assigned,
                 raised>>
  /\ UNCHANGED <<userIsInteracting, lastControlEvent, activeTabs,
                 activeSections, lastClicked, callState>>
  /\ UNCHANGED <<keplerVars, cometVars>>

\* app.js: animate(); julianDate counts the days since the start date
AnimateApp ==
  /\ pc = "run"
  /\ script = "app"
  /\ frames < MaxFrames
  /\ pending > 0
  /\ pending' = requestAnimationFrame(pending - 1)
  /\ julianDate' = julianDate + TimeSpeedFactorApp * Unit
  /\ \E helio \in HeliocentricApp, ecl \in EclipticApp, angle \in ClockAngles :
       /\ meshes' = [p \in PlanetNames |->
                       heliocentricToVector3(helio[p], OrbitRadiusApp(RadiusApp(p)))]
       /\ moonPosition' = MoonApp(ecl)
       /\ cameraPos' =
            CameraApp(userIsInteracting, cameraPos, controlsTarget, angle)
  /\ cometVelocity' = cometVelocity + CometAcceleration
  /\ cometPosition' = MoveComet(cometPosition, cometVelocity')
  /\ tailPositions' = ShiftTail(tailPositions, cometPosition')
  /\ assigned' = [p \in PlanetNames |-> Occurrences(p)]
  /\ frames' = frames + 1
  /\ UNCHANGED <<script, elements, segments, stepRound, pc, orbitLines,
                 lastTimestamp, time, built, raised>>
  /\ UNCHANGED <<solarSystemPos, controlsTarget, userIsInteracting,
                 lastControlEvent, activeTabs, activeSections, lastClicked,
                 callState>>
  /\ UNCHANGED keplerVars

\* part_001: planets.forEach(p => { ... createOrbitLine(orbitRadius,
\* ECCENTRICITIES[p.name]) ... p.orbitRadius = orbitRadius })
CreateOrbits001 ==
  /\ pc = "load"
  /\ script = "part_001"
  /\ elements' = Elements001
  /\ orbitLines' =
       [p \in Names001 |->
          createOrbitLineApp(elements'[p].a, elements'[p].e, segments)]
  /\ built' = [p \in Names001 |-> built[p] + 1]
  /\ pc' = "run"
  /\ pending' = 1
  /\ UNCHANGED <<script, segments, stepRound, meshes, moonPosition,
                 julianDate, lastTimestamp, time, frames, assigned, raised>>
  /\ UNCHANGED <<keplerVars, viewVars, cometVars>>

\* part_001 (first script): animate()
Animate001 ==
  /\ pc = "run"
  /\ script = "part_001"
  /\ frames < MaxFrames
  /\ pending > 0
  /\ pending' = requestAnimationFrame(pending - 1)
  /\ \E lon \in Longitudes001, ecl \in EclipticApp :
       /\ meshes' = [p \in Names001 |-> Frame001(p, elements[p].a, lon[p])]
       /\ moonPosition' = MoonApp(ecl)
  /\ cameraPos' = ControlsUpdate(script, cameraPos, controlsTarget, solarSystemPos)
  /\ assigned' = [p \in Names001 |-> 1]
  /\ frames' = frames + 1
  /\ UNCHANGED <<script, elements, segments, stepRound, pc, orbitLines,
                 julianDate, lastTimestamp, time, built, raised>>
  /\ UNCHANGED <<solarSystemPos, controlsTarget, userIsInteracting,
                 lastControlEvent, activeTabs, activeSections, lastClicked,
                 callState>>
  /\ UNCHANGED <<keplerVars, cometVars>>

OrbitIdle ==
  /\ script = "part_005"
  /\ elements = TableElements
  /\ segments = 1
  /\ stepRound = 0
  /\ pc = "load"
  /\ orbitLines = [p \in PlanetNames |-> <<>>]
  /\ meshes = [p \in PlanetNames |-> NoSample]
  /\ moonPosition = <<0, 0, 0>>
  /\ julianDate = 0
  /\ lastTimestamp = 0
  /\ time = 0
  /\ frames = 0
  /\ built = [p \in PlanetNames |-> 0]
  /\ assigned = [p \in PlanetNames |-> 0]
  /\ raised = "none"
  /\ pending = 0

OrbitInit ==
  /\ script \in Scripts
  /\ elements \in (IF script \in ElementScripts THEN Configurations
                   ELSE IF script = "part_001" THEN {UnsetElements001}
                   ELSE {UnsetElementsApp})
  /\ segments \in (IF script \in ViewScripts THEN {1} ELSE 1 .. MaxSegments)
  /\ stepRound \in (IF script = "part_000" THEN {0, 1} ELSE {0})
  /\ pc = "load"
  /\ orbitLines = [p \in NamesOf(script) |-> <<>>]
  /\ meshes = [p \in NamesOf(script) |-> NoSample]
  /\ moonPosition = <<0, 0, 0>>
  /\ julianDate \in (IF script = "part_005" THEN StartDates ELSE {0})
  /\ lastTimestamp = 0
  /\ time = 0
  /\ frames = 0
  /\ built = [p \in NamesOf(script) |-> 0]
  /\ assigned = [p \in NamesOf(script) |-> 0]
  /\ raised = "none"
  /\ pending = 0

\* part_005: planets.forEach(p => { ... createOrbitLineFromElements ... })
CreateOrbits005 ==
  /\ pc = "load"
  /\ script = "part_005"
  /\ orbitLines' =
       [p \in PlanetNames |-> createOrbitLineFromElements005(elements[p], segments)]
  /\ built' = [p \in PlanetNames |-> built[p] + Occurrences(p)]
  /\ pc' = "run"
  /\ pending' = 1
  /\ UNCHANGED <<script, elements, segments, stepRound, meshes, moonPosition,
                 julianDate, lastTimestamp, time, frames, assigned, raised>>
  /\ UNCHANGED <<keplerVars, viewVars, cometVars>>

\* part_002: planets.forEach(p => { ... createOrbitLineFromElements ... })
CreateOrbits002 ==
  /\ pc = "load"
  /\ script = "part_002"
  /\ orbitLines' =
       [p \in PlanetNames |-> createOrbitLineFromElements002(elements[p], segments)]
  /\ built' = [p \in PlanetNames |-> built[p] + Occurrences(p)]
  /\ pc' = "run"
  /\ pending' = 1
  /\ UNCHANGED <<script, elements, segments, stepRound, meshes, moonPosition,
                 julianDate, lastTimestamp, time, frames, assigned, raised>>
  /\ UNCHANGED <<keplerVars, viewVars, cometVars>>

\* part_000: Object.entries(orbitalElementsData).forEach(... createOrbitLine ...)
CreateOrbits000 ==
  /\ pc = "load"
  /\ script = "part_000"
  /\ orbitLines' =
       [p \in PlanetNames |-> createOrbitLine000(elements[p], segments, stepRound)]
  /\ built' = [p \in PlanetNames |-> built[p] + Occurrences(p)]
  /\ pc' = "run"
  /\ pending' = 1
  /\ UNCHANGED <<script, elements, segments, stepRound, meshes, moonPosition,
                 julianDate, lastTimestamp, time, frames, assigned, raised>>
  /\ UNCHANGED <<keplerVars, viewVars, cometVars>>

\* app.js: planets.forEach(p => { ... createOrbitLine(orbitRadius,
\* ECCENTRICITIES[p.name]) ... p.orbitRadius = orbitRadius })
CreateOrbitsApp ==
  /\ pc = "load"
  /\ script = "app"
  /\ elements' = ElementsApp
  /\ orbitLines' =
       [p \in PlanetNames |->
          createOrbitLineApp(elements'[p].a, elements'[p].e, segments)]
  /\ built' = [p \in PlanetNames |-> built[p] + Occurrences(p)]
  /\ pc' = "run"
  /\ pending' = 1
  /\ UNCHANGED <<script, segments, stepRound, meshes, moonPosition,
                 julianDate, lastTimestamp, time, frames, assigned, raised>>
  /\ UNCHANGED <<keplerVars, viewVars, cometVars>>

\* part_006: the module body: the mesh set-up, the Moon set-up and the first
\* call animate(); an exception ends it where it is raised
Load006 ==
  /\ pc = "load"
  /\ script = "part_006"
  /\ raised' = FirstRaised(<<MeshSetup006, MoonSetup006, Tick006>>)
  /\ pc' = IF raised' = "none" THEN "run" ELSE "crashed"
  /\ pending' = IF raised' = "none" THEN requestAnimationFrame(0) ELSE 0
  /\ frames' = IF raised' = "none" THEN frames + 1 ELSE frames
  /\ UNCHANGED <<script, elements, segments, stepRound, orbitLines, meshes,
                 moonPosition, julianDate, lastTimestamp, time, built,
                 assigned>>
  /\ UNCHANGED <<keplerVars, viewVars, cometVars>>

\* animate(timestamp) storing the reduced mean anomaly back into the elements
Animate005Storing ==
  /\ pc = "run"
  /\ script = "part_005"
  /\ frames < MaxFrames
  /\ pending > 0
  /\ pending' = requestAnimationFrame(pending - 1)
  /\ \E dt \in FrameDeltas, moon \in MoonOffsets :
       LET timestamp == IF frames = 0 THEN 0 ELSE lastTimestamp + dt
           delta == (timestamp - lastTimestamp) * (Unit \div 1000)
       IN /\ lastTimestamp' = timestamp
          /\ julianDate' = julianDate + Mul(delta, TimeSpeedFactor005 * Unit)
          /\ meshes' = [p \in PlanetNames |-> Frame005(elements[p], julianDate')]
          /\ moonPosition' = MoonAt(meshes'["Earth"].pos, moon)
  /\ elements' = [p \in PlanetNames |->
                    [elements[p] EXCEPT !.ma = meshes'[p].anom]]
  /\ assigned' = [p \in PlanetNames |-> Occurrences(p)]
  /\ frames' = frames + 1
  /\ UNCHANGED <<script, segments, stepRound, pc, orbitLines, time, built,
                 raised>>
  /\ UNCHANGED <<keplerVars, viewVars, cometVars>>

\* animate(timestamp) placing the Moon at the Earth of the frame before
Animate005StaleEarth ==
  /\ pc = "run"
  /\ script = "part_005"
  /\ frames < MaxFrames
  /\ pending > 0
  /\ pending' = requestAnimationFrame(pending - 1)
  /\ \E dt \in FrameDeltas, moon \in MoonOffsets :
       LET timestamp == IF frames = 0 THEN 0 ELSE lastTimestamp + dt
           delta == (timestamp - lastTimestamp) * (Unit \div 1000)
       IN /\ lastTimestamp' = timestamp
          /\ julianDate' = julianDate + Mul(delta, TimeSpeedFactor005 * Unit)
          /\ meshes' = [p \in PlanetNames |-> Frame005(elements[p], julianDate')]
          /\ moonPosition' = MoonAt(meshes["Earth"].pos, moon)
  /\ assigned' = [p \in PlanetNames |-> Occurrences(p)]
  /\ frames' = frames + 1
  /\ UNCHANGED <<script, elements, segments, stepRound, pc, orbitLines, time,
                 built, raised>>
  /\ UNCHANGED <<keplerVars, viewVars, cometVars>>

\* animate(timestamp) advancing the date by the timestamp, not by its
\* difference to the frame before
Animate005Absolute ==
  /\ pc = "run"
  /\ script = "part_005"
  /\ frames < MaxFrames
  /\ pending > 0
  /\ pending' = requestAnimationFrame(pending - 1)
  /\ \E dt \in FrameDeltas, moon \in MoonOffsets :
       LET timestamp == IF frames = 0 THEN 0 ELSE lastTimestamp + dt
           delta == timestamp * (Unit \div 1000)
       IN /\ lastTimestamp' = timestamp
          /\ julianDate' = julianDate + Mul(delta, TimeSpeedFactor005 * Unit)
          /\ meshes' = [p \in PlanetNames |-> Frame005(elements[p], julianDate')]
          /\ moonPosition' = MoonAt(meshes'["Earth"].pos, moon)
  /\ assigned' = [p \in PlanetNames |-> Occurrences(p)]
  /\ frames' = frames + 1
  /\ UNCHANGED <<script, elements, segments, stepRound, pc, orbitLines, time,
                 built, raised>>
  /\ UNCHANGED <<keplerVars, viewVars, cometVars>>

\* part_005: animate(timestamp); the first call is animate(), timestamp = 0
Animate005 ==
  /\ pc = "run"
  /\ script = "part_005"
  /\ frames < MaxFrames
  /\ pending > 0
  /\ pending' = requestAnimationFrame(pending - 1)
  /\ \E dt \in FrameDeltas, moon \in MoonOffsets :
       LET timestamp == IF frames = 0 THEN 0 ELSE lastTimestamp + dt
           delta == (timestamp - lastTimestamp) * (Unit \div 1000)
       IN /\ lastTimestamp' = timestamp
          /\ julianDate' = julianDate + Mul(delta, TimeSpeedFactor005 * Unit)
          /\ meshes' = [p \in PlanetNames |-> Frame005(elements[p], julianDate')]
          /\ moonPosition' = MoonAt(meshes'["Earth"].pos, moon)
  /\ assigned' = [p \in PlanetNames |-> Occurrences(p)]
  /\ frames' = frames + 1
  /\ UNCHANGED <<script, elements, segments, stepRound, pc, orbitLines, time,
                 built, raised>>
  /\ UNCHANGED <<keplerVars, viewVars, cometVars>>

\* animate() building the orbit lines again in every frame
Animate000Rebuilding ==
  /\ pc = "run"
  /\ script = "part_000"
  /\ frames < MaxFrames
  /\ pending > 0
  /\ pending' = requestAnimationFrame(pending - 1)
  /\ time' = time + TimeSpeedFactor000
  /\ meshes' = [p \in PlanetNames |-> Frame000(elements[p], time')]
  /\ orbitLines' =
       [p \in PlanetNames |-> createOrbitLine000(elements[p], segments, stepRound)]
  /\ built' = [p \in PlanetNames |-> built[p] + Occurrences(p)]
  /\ assigned' = [p \in PlanetNames |-> Occurrences(p)]
  /\ frames' = frames + 1
  /\ UNCHANGED <<script, elements, segments, stepRound, pc, moonPosition,
                 julianDate, lastTimestamp, raised>>
  /\ UNCHANGED <<keplerVars, viewVars, cometVars>>

\* part_000: animate()
Animate000 ==
  /\ pc = "run"
  /\ script = "part_000"
  /\ frames < MaxFrames
  /\ pending > 0
  /\ pending' = requestAnimationFrame(pending - 1)
  /\ time' = time + TimeSpeedFactor000
  /\ meshes' = [p \in PlanetNames |-> Frame000(elements[p], time')]
  /\ assigned' = [p \in PlanetNames |-> Occurrences(p)]
  /\ frames' = frames + 1
  /\ UNCHANGED <<script, elements, segments, stepRound, pc, orbitLines,
                 moonPosition, julianDate, lastTimestamp, built, raised>>
  /\ UNCHANGED <<keplerVars, viewVars, cometVars>>

KeplerIdle ==
  /\ kSolver = "newton"
  /\ kM = 0
  /\ ke = 0
  /\ kE = 0
  /\ kIter = 0
  /\ kpc = "done"

Init == OrbitInit /\ KeplerIdle /\ ViewIdle /\ CometIdle

Next ==
  \/ CreateOrbits005
  \/ CreateOrbits002
  \/ CreateOrbits000
  \/ CreateOrbitsApp
  \/ Load006
  \/ Animate005
  \/ Animate000
  \/ CreateOrbits001
  \/ LoadView
  \/ AnimateApp
  \/ Animate001
  \/ AnimateView
  \/ ControlsStart
  \/ ControlsEnd
  \/ ControlsDrag
  \/ TabClick

Spec == Init /\ [][Next]_vars

\* the number of anomaly samples per revolution the solvers are tried on
MSamples == 8

\* mean anomalies in [0, 2 pi)
MeanAnomalies == {(j * TwoPi) \div MSamples : j \in 0 .. MSamples - 1}

\* the eccentricities the scripts configure: a circle, Earth and Mercury as
\* VSOP87 gives them, and Earth and Mercury of the hand-written table
ConfiguredEccentricities == {0, 167000, 2056000, 300000, 3500000}

\* eccentricities in [0, 1): the configured ones and two elongated ellipses
Eccentricities == ConfiguredEccentricities \cup {5000000, 9000000}

\* an elongated ellipse near periapsis, where Newton's method started at
\* E = M overshoots
StressInputs == {<<2660000, 9740000>>}

KeplerInputs == (MeanAnomalies \X Eccentricities) \cup StressInputs

KeplerInit ==
  /\ kSolver \in {"newton", "fixedpoint", "approx"}
  /\ \E in \in KeplerInputs : kM = in[1] /\ ke = in[2]
  /\ kE = KeplerStart(kM, ke)
  /\ kIter = 0
  /\ kpc = "loop"
  /\ OrbitIdle
  /\ ViewIdle
  /\ CometIdle

\* solveKepler: one pass of the loop body that does not break
KeplerIterate ==
  /\ kSolver = "newton"
  /\ kpc = "loop"
  /\ KeplerLoopGuard(kIter)
  /\ Abs(KeplerDelta(kE, kM, ke)) >= Tolerance
  /\ kE' = KeplerNewton(kE, kM, ke)
  /\ kIter' = kIter + 1
  /\ UNCHANGED <<kSolver, kM, ke, kpc>>
  /\ UNCHANGED <<orbitVars, viewVars, cometVars>>

\* solveKepler: if (Math.abs(delta) < tolerance) break; return E
KeplerBreak ==
  /\ kSolver = "newton"
  /\ kpc = "loop"
  /\ KeplerLoopGuard(kIter)
  /\ Abs(KeplerDelta(kE, kM, ke)) < Tolerance
  /\ kpc' = "done"
  /\ UNCHANGED <<kSolver, kM, ke, kE, kIter>>
  /\ UNCHANGED <<orbitVars, viewVars, cometVars>>

\* solveKepler: the loop condition fails; return E
KeplerExhaust ==
  /\ kSolver = "newton"
  /\ kpc = "loop"
  /\ ~KeplerLoopGuard(kIter)
  /\ kpc' = "done"
  /\ UNCHANGED <<kSolver, kM, ke, kE, kIter>>
  /\ UNCHANGED <<orbitVars, viewVars, cometVars>>

\* the orbit-line builder: one pass of its fixed-point loop
FixedPointIterate ==
  /\ kSolver = "fixedpoint"
  /\ kpc = "loop"
  /\ kIter < FixedPointIters
  /\ kE' = FixedPointStep(kE, kM, ke)
  /\ kIter' = kIter + 1
  /\ UNCHANGED <<kSolver, kM, ke, kpc>>
  /\ UNCHANGED <<orbitVars, viewVars, cometVars>>

\* the orbit-line builder: its fixed-point loop ends
FixedPointExit ==
  /\ kSolver = "fixedpoint"
  /\ kpc = "loop"
  /\ kIter >= FixedPointIters
  /\ kpc' = "done"
  /\ UNCHANGED <<kSolver, kM, ke, kE, kIter>>
  /\ UNCHANGED <<orbitVars, viewVars, cometVars>>

\* the hand-written-table script: E is M
ApproxAssign ==
  /\ kSolver = "approx"
  /\ kpc = "loop"
  /\ kE' = ApproxE(kM, ke)
  /\ kpc' = "done"
  /\ UNCHANGED <<kSolver, kM, ke, kIter>>
  /\ UNCHANGED <<orbitVars, viewVars, cometVars>>

KeplerNext ==
  \/ KeplerIterate
  \/ KeplerBreak
  \/ KeplerExhaust
  \/ FixedPointIterate
  \/ FixedPointExit
  \/ ApproxAssign

SpecKepler == KeplerInit /\ [][KeplerNext]_vars

\* the loops are sequential code: a step that can be taken is taken
SpecKeplerFair == SpecKepler /\ WF_vars(KeplerNext)

\* where the solarSystem group is when clampCameraDistance is called: at the
\* origin, and at two points of its helix
ClampCenters ==
  {<<0, 0, 0>>, <<39 * ViewUnit, 0, 0>>, <<0, 15 * ViewUnit, 70 * ViewUnit>>}

\* where the camera is, relative to the group: at the group itself, close
\* to it, at cameraOffset, and farther out along several rays
ClampOffsets ==
  {<<0, 0, 0>>,
   <<0, 0, 10 * ViewUnit>>,
   <<-60 * ViewUnit, 0, 0>>,
   cameraOffset,
   <<0, 600 * ViewUnit, 0>>,
   <<1200 * ViewUnit, 1600 * ViewUnit, 2000 * ViewUnit>>,
   <<0, 3000 * ViewUnit, 4000 * ViewUnit>>,
   <<9000 * ViewUnit, 0, 0>>}

\* a call of clampCameraDistance in any of its scripts, for any of these
\* positions of the camera and of the group
ClampInit ==
  /\ script \in ClampScripts
  /\ elements = UnsetElementsApp
  /\ segments = 1
  /\ stepRound = 0
  /\ pc = "run"
  /\ orbitLines = [p \in PlanetNames |-> <<>>]
  /\ meshes = [p \in PlanetNames |-> NoSample]
  /\ moonPosition = <<0, 0, 0>>
  /\ julianDate = 0
  /\ lastTimestamp = 0
  /\ time = 0
  /\ frames = 0
  /\ built = [p \in PlanetNames |-> 0]
  /\ assigned = [p \in PlanetNames |-> 0]
  /\ raised = "none"
  /\ pending = 0
  /\ solarSystemPos \in ClampCenters
  /\ \E off \in ClampOffsets : cameraPos = add(solarSystemPos, off)
  /\ controlsTarget = solarSystemPos
  /\ userIsInteracting = FALSE
  /\ lastControlEvent = "none"
  /\ activeTabs = {InitialTab}
  /\ activeSections = {InitialTab}
  /\ lastClicked = "none"
  /\ callState = "call"
  /\ KeplerIdle
  /\ CometIdle

\* clampCameraDistance()
ClampCall ==
  /\ callState = "call"
  /\ cameraPos' = clampCameraDistance(script, cameraPos, solarSystemPos)
  /\ callState' = "done"
  /\ UNCHANGED <<solarSystemPos, controlsTarget, userIsInteracting,
                 lastControlEvent, activeTabs, activeSections, lastClicked>>
  /\ UNCHANGED <<keplerVars, orbitVars, cometVars>>

ClampNext == ClampCall

SpecClamp == ClampInit /\ [][ClampNext]_vars

\* ------------------------------------------------------------------------
\* Claims
\* ------------------------------------------------------------------------

\* the samples of planet p: the points of its orbit line and, once a frame
\* has been rendered, its position
BuiltSamples(p) == {orbitLines[p][k] : k \in 1 .. Len(orbitLines[p])}

PlacedSamples(p) ==
  IF frames > 0 /\ script \in ElementScripts THEN {meshes[p]} ELSE {}

Samples(p) == BuiltSamples(p) \cup PlacedSamples(p)

\* C1: for every segment count N >= 1 and every set of elements, the orbit
\* line a builder has produced has exactly N points.
C1_ExactlyNPoints ==
  pc = "run" => \A p \in PlanetNames : Len(orbitLines[p]) = segments

\* C2: the builders of part_005 and part_002 sample the anomaly in [0, 2 pi):
\* no sample is at 2 pi, so the last point does not repeat the first.
C2_SamplesBelowTwoPi ==
  (pc = "run" /\ script \in {"part_005", "part_002"})
    => \A p \in PlanetNames : \A s \in BuiltSamples(p) :
         s.anom >= 0 /\ s.anom < TwoPi

\* C3: solveKepler terminates for every input: it returns, and its loop body
\* has run at most maxIter = 20 times whenever it is looked at.
C3_SolveKeplerTerminates ==
  /\ <>(kpc = "done")
  /\ [](kSolver = "newton" => kIter <= MaxIter)

\* C3 witness: solveKepler has returned after using up all 20 passes
C3_Witness == kSolver = "newton" /\ kpc = "done" /\ kIter = MaxIter

\* C4: for e in [0,1) and M in [0, 2 pi) the E that solveKepler returns
\* satisfies |E - e sin E - M| <= 1e-6.
C4_NewtonConverges ==
  (kSolver = "newton" /\ kpc = "done" /\ ke >= 0 /\ ke < Unit
     /\ kM >= 0 /\ kM < TwoPi)
    => Abs(KeplerDelta(kE, kM, ke)) <= Tolerance

\* C5: whichever code turns M into a position, the E it goes on with
\* satisfies |E - e sin E - M| <= 1e-6 for every configured eccentricity.
C5_KeplerSolvedBeforeUse ==
  (kpc = "done" /\ ke \in ConfiguredEccentricities)
    => Abs(KeplerDelta(kE, kM, ke)) <= Tolerance

\* C6: for M = 0 and e in [0,1), solveKepler and the fixed-point loop hold
\* E = 0 exactly, from the start to the value they end with.
C6_ZeroMeanAnomaly ==
  (kSolver \in {"newton", "fixedpoint"} /\ kM = 0 /\ ke >= 0 /\ ke < Unit)
    => kE = 0

\* C6 witness: the fixed-point loop has run its passes on M = 0 for an
\* elongated ellipse
C6_Witness ==
  /\ kSolver = "fixedpoint"
  /\ kpc = "done"
  /\ kIter = FixedPointIters
  /\ kM = 0
  /\ ke = 9000000

\* C7: for e = 0 the estimate is M exactly in every state of the solver, and
\* solveKepler never runs an updating pass.
C7_CircularOrbit ==
  ke = 0 => (kE = kM /\ (kSolver = "newton" => kIter = 0))

\* C7 witness: solveKepler has returned for a circular orbit and M # 0
C7_Witness == kSolver = "newton" /\ kpc = "done" /\ ke = 0 /\ kM > HalfPi

\* C8: for e in [0,1) and a > 0, the radius r = a (1 - e cos E) of every
\* orbit-line point and every position of part_005 satisfies
\* a (1 - e) <= r <= a (1 + e).
C8_RadiusWithinApsides ==
  script = "part_005"
    => \A p \in PlanetNames : \A s \in Samples(p) :
         /\ Mul(elements[p].a, Unit - elements[p].e) <= s.r
         /\ s.r <= Mul(elements[p].a, Unit + elements[p].e)

\* C8 witness: an elongated ellipse whose orbit line holds the periapsis and
\* the apoapsis and whose planet has been positioned off both
C8_Witness ==
  /\ script = "part_005"
  /\ frames > 0
  /\ \E p \in PlanetNames :
       /\ elements[p].e > 0
       /\ \E s \in BuiltSamples(p) : s.r = Mul(elements[p].a, Unit - elements[p].e)
       /\ \E s \in BuiltSamples(p) : s.r = Mul(elements[p].a, Unit + elements[p].e)
       /\ meshes[p].r > Mul(elements[p].a, Unit - elements[p].e)
       /\ meshes[p].r < Mul(elements[p].a, Unit + elements[p].e)

\* |v|^2 of a point in AU
NormSquared(v) == Mul(v[1], v[1]) + Mul(v[2], v[2]) + Mul(v[3], v[3])

\* equal up to 1e-5, the rounding of a few products on the 1e-7 grid
Close(x, y) == Abs(x - y) <= Unit \div (100 * 1000)

\* C9: for e = 0 the radius computed is a for every anomaly, and every
\* orbit-line point and every position is at the distance a from the Sun,
\* which is at the origin.
C9_CircularRadius ==
  \A p \in PlanetNames :
    elements[p].e = 0
      => \A s \in Samples(p) :
           /\ script = "part_005" => s.r = elements[p].a
           /\ Close(NormSquared(s.plane), Mul(elements[p].a, elements[p].a))
           /\ Close(NormSquared(s.P), Mul(elements[p].a, elements[p].a))

\* C9 witness: a planet on a tilted circle has been positioned away from
\* the start of its orbit
C9_Witness ==
  /\ script = "part_005"
  /\ frames > 0
  /\ \E p \in PlanetNames :
       /\ elements[p].e = 0
       /\ elements[p].i # 0
       /\ meshes[p].E > Unit
       /\ Len(orbitLines[p]) > 1

\* the rotation about the z axis (the normal) and about the x axis (the
\* node axis) by the angle t
RotZ(t, v) ==
  << Mul(v[1], Cos(t)) - Mul(v[2], Sin(t)),
     Mul(v[1], Sin(t)) + Mul(v[2], Cos(t)),
     v[3] >>

RotX(t, v) ==
  << v[1],
     Mul(v[2], Cos(t)) - Mul(v[3], Sin(t)),
     Mul(v[2], Sin(t)) + Mul(v[3], Cos(t)) >>

\* Rz(o) Rx(i) Rz(w) v
PerifocalToEcliptic(el, v) == RotZ(el.o, RotX(el.i, RotZ(el.w, v)))

\* C10: in every script, every orbit-line point and every position is the
\* orbital-plane point rotated by w about the normal, then by i about the
\* node axis, then by o: P = Rz(o) Rx(i) Rz(w) [x', y', 0].
C10_RotationOrder ==
  \A p \in PlanetNames : \A s \in Samples(p) : \A c \in 1 .. 3 :
    Close(s.P[c], PerifocalToEcliptic(elements[p], s.plane)[c])

\* C10 witness: a planet whose three angles all differ from zero has an
\* orbit line and a position off the axes of its orbital plane
C10_Witness ==
  /\ script = "part_005"
  /\ frames > 0
  /\ \E p \in PlanetNames :
       /\ elements[p].i # 0
       /\ elements[p].o # 0
       /\ elements[p].w # 0
       /\ elements[p].o # elements[p].w
       /\ meshes[p].plane[1] # 0
       /\ meshes[p].plane[2] # 0
       /\ Len(orbitLines[p]) > 1

\* a point in AU put on the scene grid as it is: no factor, no exchange of
\* axes
Unscaled(c) == <<SceneScale(c[1], 1), SceneScale(c[2], 1), SceneScale(c[3], 1)>>

\* C11: the points an orbit-line builder returns are the ecliptic points in
\* AU, unscaled: no visualization factor has been applied inside the builder.
C11_PointsUnscaled ==
  script \in ElementScripts
    => \A p \in PlanetNames : \A s \in BuiltSamples(p) : s.pos = Unscaled(s.P)

\* the elements a = 1, e = 0, i = 0, o = 0, w = 0
UnitCircle(el) ==
  el.a = Unit /\ el.e = 0 /\ el.i = 0 /\ el.o = 0 /\ el.w = 0

AtApoapsis(p) ==
  /\ script = "part_005"
  /\ frames > 0
  /\ julianDate = 0
  /\ elements[p].a = Unit
  /\ elements[p].e = 5000000
  /\ elements[p].ma = Pi

\* C13: for a = 1, e = 0.5 and M = pi, solveKepler returns E = pi and the
\* radius is a (1 + e) = 1.5.
C13_Apoapsis ==
  \A p \in PlanetNames :
    AtApoapsis(p) => (meshes[p].E = Pi /\ meshes[p].r = 15000000)

\* C13 witness: a frame at the epoch has evaluated such a planet at M = pi
C13_Witness ==
  \E p \in PlanetNames : AtApoapsis(p) /\ meshes[p].anom = Pi

\* the mean anomaly of planet p at the date before it is reduced
RawAnomaly(p) == elements[p].ma + Mul(MeanMotion(elements[p].a), julianDate)

\* the elements of planet p with k turns added to the anomaly at the epoch
Turned(p, k) == [elements[p] EXCEPT !.ma = @ + k * TwoPi]

\* C14: in part_005 the point built for M = 0 and the point built for
\* M = 2 pi are the same point, every frame solves for an M in [0, 2 pi),
\* and a whole turn more or less in M gives the same position.
C14_PeriodicInM ==
  script = "part_005"
    => \A p \in PlanetNames :
         /\ \A s \in BuiltSamples(p) : \A t \in BuiltSamples(p) :
              (s.anom = 0 /\ t.anom = TwoPi)
                => (t.pos = s.pos /\ \A c \in 1 .. 3 : Close(t.P[c], s.P[c]))
         /\ frames > 0
              => /\ meshes[p].anom >= 0
                 /\ meshes[p].anom < TwoPi
                 /\ \A k \in {-1, 1} :
                      Frame005(Turned(p, k), julianDate).pos = meshes[p].pos

\* C14 witness: a frame before the epoch has reduced a negative mean
\* anomaly, for a planet whose orbit line holds the points of 0 and of 2 pi
C14_Witness ==
  /\ script = "part_005"
  /\ frames > 0
  /\ \E p \in PlanetNames :
       /\ RawAnomaly(p) < 0
       /\ meshes[p].anom > Pi
       /\ orbitLines[p][1].anom = 0
       /\ orbitLines[p][Len(orbitLines[p])].anom = TwoPi

\* the data-model constraints on the shape of an orbit: a > 0, 0 <= e < 1
ValidShape(el) == el.a > 0 /\ el.e >= 0 /\ el.e < Unit

\* C16: elements with a <= 0 or e outside [0, 1) are reported when the
\* script loads: no orbit line is ever built from them, and once loading is
\* over the error InvalidOrbitalElements has been raised for them.
C16_InvalidElementsReported ==
  \A p \in PlanetNames :
    ~ValidShape(elements[p])
      => /\ built[p] = 0
         /\ pc # "load" => raised = "InvalidOrbitalElements"

\* C17: whenever the orbit line of a planet has been built, the semi-major
\* axis and the eccentricity it was built with satisfy a > 0 and 0 <= e < 1.
C17_BuiltFromValidShape ==
  \A p \in PlanetNames : built[p] > 0 => ValidShape(elements[p])

\* C18: no exception stops a script: the render loop is reached, and every
\* frame's evaluation of the planets, the Moon and the camera completes, so
\* that the frame is rendered.
C18_NoTickRaises == raised = "none" /\ pc # "crashed"

\* C19: in the scripts that draw orbits, the orbit line of every body is
\* built once, when the script loads, and never by a frame; every frame sets
\* the position of every planet once.
C19_BuiltOnce ==
  /\ [](script \notin ViewScripts =>
          \A p \in PlanetNames :
            /\ built[p] <= 1
            /\ pc = "run" => built[p] = 1
            /\ frames > 0 => assigned[p] = 1)
  /\ [][pc = "run" => (orbitLines' = orbitLines /\ built' = built)]_vars

\* C19 witness: several frames have been rendered after the orbit lines
\* were built
C19_Witness ==
  /\ pc = "run"
  /\ frames > 1
  /\ \A p \in PlanetNames :
       built[p] = 1 /\ assigned[p] = 1 /\ Len(orbitLines[p]) > 1

\* C20: once a script runs its frames, no step changes the stored elements
\* (a, e, i, o, w, ma) of any planet.
C20_ElementsImmutable == [][pc = "run" => elements' = elements]_vars

\* C20 witness: frames have moved a planet while its elements are those
\* of the configuration
C20_Witness ==
  /\ pc = "run"
  /\ frames > 1
  /\ elements \in Configurations
  /\ \E p \in PlanetNames : meshes[p].anom # elements[p].ma

\* C21: the render loop is one chain of frame callbacks: every call of
\* animate asks for exactly one further frame, so that while a script runs
\* exactly one call of animate is due: never two, and never none.
C21_SingleChain ==
  /\ [](pc = "run" => pending = 1)
  /\ [][frames' = frames + 1 => pending' = pending]_vars

\* C21 witness: app.js has rendered several frames and one call is due
C21_Witness ==
  /\ script = "app"
  /\ pc = "run"
  /\ frames > 1
  /\ pending = 1

\* C22: controls.userIsInteracting is false at first and, after any
\* sequence of 'start' and 'end' events, true exactly when the latest of
\* them was 'start'.
C22_InteractingIffStarted ==
  /\ userIsInteracting \in BOOLEAN
  /\ userIsInteracting <=> lastControlEvent = "start"

\* C22 witness: an 'end' has followed a drag, which only a 'start' allows
C22_Witness ==
  /\ script = "part_004"
  /\ lastControlEvent = "end"
  /\ ~userIsInteracting
  /\ cameraPos # add(solarSystemPos, cameraOffset)
  /\ controlsTarget = solarSystemPos

\* C23: a tick that finds userIsInteracting false leaves the camera at
\* solarSystem.position + cameraOffset and the controls' target at
\* solarSystem.position; a tick that finds it true changes neither.
C23_AutoFollow ==
  [][(script \in ViewScripts /\ frames' = frames + 1) =>
       IF userIsInteracting
         THEN cameraPos' = cameraPos /\ controlsTarget' = controlsTarget
         ELSE /\ cameraPos' = add(solarSystemPos', cameraOffset)
              /\ controlsTarget' = solarSystemPos']_vars

\* a distance within [lo, hi], up to the rounding of the camera coordinates
WithinRange(distance, lo, hi) ==
  distance >= lo - ViewUnit \div 100 /\ distance <= hi + ViewUnit \div 100

\* C24: after clampCameraDistance the camera is at a distance within
\* [minDistance, maxDistance] from solarSystem.position, wherever it was
\* before the call, also exactly at solarSystem.position; a camera that was
\* within the range has not been moved.
C24_ClampedIntoRange ==
  [][(callState = "call" /\ callState' = "done") =>
       /\ WithinRange(distanceTo(cameraPos', solarSystemPos'),
                      ClampMin(script), ClampMax(script))
       /\ WithinRange(distanceTo(cameraPos, solarSystemPos),
                      ClampMin(script), ClampMax(script))
            => cameraPos' = cameraPos]_vars

\* C25: the length of cameraOffset is within the range of
\* clampCameraDistance, so that after a tick the clamp leaves a camera at
\* solarSystem.position + cameraOffset, where auto-follow puts it, in place.
C25_OffsetWithinClamp ==
  (script \in ClampScripts /\ frames > 0) =>
    /\ length(cameraOffset) >= ClampMin(script)
    /\ length(cameraOffset) <= ClampMax(script)
    /\ clampCameraDistance(script, add(solarSystemPos, cameraOffset),
                           solarSystemPos)
         = add(solarSystemPos, cameraOffset)

\* C26: after any sequence of clicks on .tab buttons exactly one button is
\* 'active', the one clicked last, and exactly one section is 'active', the
\* element whose id is the data-tab value of that button, whichever button
\* it is.
C26_OneActiveTab ==
  lastClicked # "none" =>
    /\ activeTabs = {lastClicked}
    /\ activeSections = {lastClicked}

\* the comet after j ticks, from the updates of animate alone: <<velocity,
\* position>>
RECURSIVE CometAfter(_)
CometAfter(j) ==
  IF j = 0 THEN <<0, <<0, 0, 0>>>>
  ELSE <<CometAfter(j - 1)[1] + CometAcceleration,
         MoveComet(CometAfter(j - 1)[2],
                   CometAfter(j - 1)[1] + CometAcceleration)>>

\* the slots of the tail that k ticks have filled
FilledSlots(k) == {i \in 0 .. TailLength - 1 : i < k}

Float32Vector(v) == <<Fround(v[1]), Fround(v[2]), Fround(v[3])>>

\* C27: the tail buffer is a shift register: after k ticks slot i, for
\* i < min(k, tailLength), holds the comet position assigned in tick k - i,
\* and the slots i >= k hold (0, 0, 0).
C27_ShiftRegisterExact ==
  script = "app" =>
    \A i \in 0 .. TailLength - 1 :
      tailPositions[i + 1] =
        (IF i \in FilledSlots(frames) THEN CometAfter(frames - i)[2]
         ELSE <<0, 0, 0>>)

\* C27 as amended: after k ticks slot i, for i < min(k, tailLength), holds
\* the comet position assigned in tick k - i rounded to float32, which the
\* Float32Array stores; the slots i >= k hold (0, 0, 0).
C27_ShiftRegisterRounded ==
  script = "app" =>
    \A i \in 0 .. TailLength - 1 :
      tailPositions[i + 1] =
        (IF i \in FilledSlots(frames) THEN Float32Vector(CometAfter(frames - i)[2])
         ELSE <<0, 0, 0>>)

\* C27 witness: a second tick has shifted the position of the first into
\* slot 1, and the positions stored differ from the positions assigned
C27_Witness ==
  /\ script = "app"
  /\ frames > 1
  /\ tailPositions[2] # <<0, 0, 0>>
  /\ tailPositions[1] # tailPositions[2]
  /\ tailPositions[1] # cometPosition

CloseScene(x, y) == Abs(x - y) <= SceneUnit \div 10

\* C29: in every tick of part_001 the distance of a planet's mesh from the
\* Sun, which is at the origin, is the p.orbitRadius its orbit line was
\* built with, for the inner planets and for the compressed outer ones.
C29_MeshOnOrbitRadius ==
  (script = "part_001" /\ frames > 0) =>
    \A p \in Names001 :
      CloseScene(length(meshes[p].pos), elements[p].a)

\* C30: the date after the tick with the timestamp T is the date at the
\* start plus TIME_SPEED_FACTOR * T / 1000; the first call, animate(), does
\* not advance it; no tick takes it back.
C30_DateFollowsTimestamp ==
  /\ [](script = "part_005" =>
          \E start \in StartDates :
            julianDate =
              start + TimeSpeedFactor005 * lastTimestamp * (Unit \div 1000))
  /\ [][(script = "part_005" /\ frames = 0 /\ frames' = 1) =>
          julianDate' = julianDate]_vars
  /\ [][julianDate' >= julianDate]_vars

\* C30 witness: several frames with different timestamps have advanced the
\* date
C30_Witness ==
  /\ script = "part_005"
  /\ frames > 2
  /\ lastTimestamp > 1000
  /\ julianDate \notin StartDates

====
